---- MODULE Spec2Model ----
(***************************************************************************)
(* StudiGotchi front end: the quiz normalizer (QuizCard.jsx normalizeQuiz), *)
(* the quiz card (QuizCard), the game session (Game.jsx Game), the home     *)
(* screen with its animation timers (Home), the upload control (UploadBox)  *)
(* and the page switch (App).                                               *)
(*                                                                          *)
(* React state setters are modelled at the granularity of one event         *)
(* handler or one timer callback: a handler runs to completion and its      *)
(* state updates are committed together before the next event.              *)
(***************************************************************************)
EXTENDS Integers, Sequences, FiniteSets, TLC

(***************************************************************************)
(* JavaScript values.  Every value is a record tagged by t; the payload     *)
(* field differs per tag, so values of different types are unequal.         *)
(* Finite numbers are integers here; NaN is its own value.                  *)
(***************************************************************************)
Undefined == [t |-> "undefined"]
Null == [t |-> "null"]
NaN == [t |-> "NaN"]
Num(n) == [t |-> "number", n |-> n]
Str(s) == [t |-> "string", s |-> s]
Bool(b) == [t |-> "boolean", b |-> b]
Arr(a) == [t |-> "array", a |-> a]
Obj(o) == [t |-> "object", o |-> o]

\* JavaScript truthiness: undefined, null, NaN, 0, "" and false are falsy.
Truthy(v) ==
    CASE v.t = "undefined" -> FALSE
      [] v.t = "null" -> FALSE
      [] v.t = "NaN" -> FALSE
      [] v.t = "number" -> v.n # 0
      [] v.t = "string" -> v.s # ""
      [] v.t = "boolean" -> v.b
      [] OTHER -> TRUE

\* a ?? b
Nullish(a, b) == IF a.t \in {"undefined", "null"} THEN b ELSE a

\* a || b
OrElse(a, b) == IF Truthy(a) THEN a ELSE b

\* obj.k for a property that may be absent; obj?.k when obj is null/undefined.
Get(obj, k) ==
    IF obj.t = "object" /\ k \in DOMAIN obj.o THEN obj.o[k] ELSE Undefined

\* Decimal digits of a natural number, as String(n) prints them.
Digit(d) ==
    CASE d = 0 -> "0" [] d = 1 -> "1" [] d = 2 -> "2" [] d = 3 -> "3"
      [] d = 4 -> "4" [] d = 5 -> "5" [] d = 6 -> "6" [] d = 7 -> "7"
      [] d = 8 -> "8" [] d = 9 -> "9"

RECURSIVE NatToString(_)
NatToString(n) ==
    IF n < 10 THEN Digit(n) ELSE NatToString(n \div 10) \o Digit(n % 10)

IntToString(n) == IF n < 0 THEN "-" \o NatToString(-n) ELSE NatToString(n)

\* Array.prototype.join(",") over already converted entries.
RECURSIVE JoinComma(_)
JoinComma(strs) ==
    IF Len(strs) = 0 THEN ""
    ELSE IF Len(strs) = 1 THEN strs[1]
    ELSE strs[1] \o "," \o JoinComma(Tail(strs))

\* String(v)
RECURSIVE JsString(_)
JsString(v) ==
    CASE v.t = "undefined" -> "undefined"
      [] v.t = "null" -> "null"
      [] v.t = "NaN" -> "NaN"
      [] v.t = "number" -> IntToString(v.n)
      [] v.t = "string" -> v.s
      [] v.t = "boolean" -> IF v.b THEN "true" ELSE "false"
      [] v.t = "array" ->
           JoinComma([i \in 1..Len(v.a) |->
                        IF v.a[i].t \in {"undefined", "null"} THEN ""
                        ELSE JsString(v.a[i])])
      [] OTHER -> "[object Object]"

\* The integers whose decimal form the string-to-number conversion recognises.
MaxNumeral == 20

\* Number(s) for a string: "" is 0, a decimal integer is its value, else NaN.
StringToNumber(s) ==
    IF s = "" THEN Num(0)
    ELSE IF \E n \in -MaxNumeral..MaxNumeral : IntToString(n) = s
         THEN Num(CHOOSE n \in -MaxNumeral..MaxNumeral : IntToString(n) = s)
         ELSE NaN

\* Number(v)
ToNumber(v) ==
    CASE v.t = "undefined" -> NaN
      [] v.t = "null" -> Num(0)
      [] v.t = "NaN" -> NaN
      [] v.t = "number" -> v
      [] v.t = "string" -> StringToNumber(v.s)
      [] v.t = "boolean" -> IF v.b THEN Num(1) ELSE Num(0)
      [] v.t = "array" -> StringToNumber(JsString(v))
      [] OTHER -> NaN

\* the finiteness test left out: every converted value passes
IsFiniteAlways(v) == TRUE

\* Number.isFinite(v)
IsFinite(v) == v.t = "number"

(***************************************************************************)
(* QuizCard.jsx: normalizeQuiz                                              *)
(***************************************************************************)
\* normalizeQuiz without the .map(String) over the options
normalizeQuizRawOptions(quiz) ==
    \* quiz && typeof quiz === 'object' ? quiz : {}  (an array is an object too,
    \* but carries none of the keys read below, as Get says)
    LET safeQuiz == IF quiz.t \in {"object", "array"} THEN quiz ELSE Obj(<<>>)
        id == Nullish(Get(safeQuiz, "id"),
              Nullish(Get(safeQuiz, "quizId"),
              Nullish(Get(safeQuiz, "questionId"), Str("quiz"))))
        question == Nullish(Get(safeQuiz, "question"),
                    Nullish(Get(safeQuiz, "prompt"), Str("...")))
        rawOptions == Nullish(Get(safeQuiz, "options"),
                      Nullish(Get(safeQuiz, "choices"),
                      Nullish(Get(safeQuiz, "answers"),
                      Nullish(Get(safeQuiz, "responses"), Arr(<<>>)))))
        options == IF rawOptions.t = "array"
                   THEN rawOptions.a
                   ELSE <<>>
        correctIndexRaw == Nullish(Get(safeQuiz, "correctIndex"),
                           Nullish(Get(safeQuiz, "correct_option_index"),
                           Nullish(Get(safeQuiz, "correctChoiceIndex"),
                           Nullish(Get(safeQuiz, "answerIndex"),
                                   Get(safeQuiz, "answer_index")))))
        correctIndex == IF IsFinite(ToNumber(correctIndexRaw))
                        THEN ToNumber(correctIndexRaw) ELSE Num(-1)
        explanation == Nullish(Get(safeQuiz, "explanation"),
                       Nullish(Get(safeQuiz, "rationale"), Str("")))
    IN [id |-> id, question |-> question, options |-> options,
        correctIndex |-> correctIndex, explanation |-> explanation]

\* normalizeQuiz probing choices before options
normalizeQuizChoicesFirst(quiz) ==
    \* quiz && typeof quiz === 'object' ? quiz : {}  (an array is an object too,
    \* but carries none of the keys read below, as Get says)
    LET safeQuiz == IF quiz.t \in {"object", "array"} THEN quiz ELSE Obj(<<>>)
        id == Nullish(Get(safeQuiz, "id"),
              Nullish(Get(safeQuiz, "quizId"),
              Nullish(Get(safeQuiz, "questionId"), Str("quiz"))))
        question == Nullish(Get(safeQuiz, "question"),
                    Nullish(Get(safeQuiz, "prompt"), Str("...")))
        rawOptions == Nullish(Get(safeQuiz, "choices"),
                      Nullish(Get(safeQuiz, "options"),
                      Nullish(Get(safeQuiz, "answers"),
                      Nullish(Get(safeQuiz, "responses"), Arr(<<>>)))))
        options == IF rawOptions.t = "array"
                   THEN [i \in 1..Len(rawOptions.a) |-> Str(JsString(rawOptions.a[i]))]
                   ELSE <<>>
        correctIndexRaw == Nullish(Get(safeQuiz, "correctIndex"),
                           Nullish(Get(safeQuiz, "correct_option_index"),
                           Nullish(Get(safeQuiz, "correctChoiceIndex"),
                           Nullish(Get(safeQuiz, "answerIndex"),
                                   Get(safeQuiz, "answer_index")))))
        correctIndex == IF IsFinite(ToNumber(correctIndexRaw))
                        THEN ToNumber(correctIndexRaw) ELSE Num(-1)
        explanation == Nullish(Get(safeQuiz, "explanation"),
                       Nullish(Get(safeQuiz, "rationale"), Str("")))
    IN [id |-> id, question |-> question, options |-> options,
        correctIndex |-> correctIndex, explanation |-> explanation]

normalizeQuiz(quiz) ==
    \* quiz && typeof quiz === 'object' ? quiz : {}  (an array is an object too,
    \* but carries none of the keys read below, as Get says)
    LET safeQuiz == IF quiz.t \in {"object", "array"} THEN quiz ELSE Obj(<<>>)
        id == Nullish(Get(safeQuiz, "id"),
              Nullish(Get(safeQuiz, "quizId"),
              Nullish(Get(safeQuiz, "questionId"), Str("quiz"))))
        question == Nullish(Get(safeQuiz, "question"),
                    Nullish(Get(safeQuiz, "prompt"), Str("...")))
        rawOptions == Nullish(Get(safeQuiz, "options"),
                      Nullish(Get(safeQuiz, "choices"),
                      Nullish(Get(safeQuiz, "answers"),
                      Nullish(Get(safeQuiz, "responses"), Arr(<<>>)))))
        options == IF rawOptions.t = "array"
                   THEN [i \in 1..Len(rawOptions.a) |-> Str(JsString(rawOptions.a[i]))]
                   ELSE <<>>
        correctIndexRaw == Nullish(Get(safeQuiz, "correctIndex"),
                           Nullish(Get(safeQuiz, "correct_option_index"),
                           Nullish(Get(safeQuiz, "correctChoiceIndex"),
                           Nullish(Get(safeQuiz, "answerIndex"),
                                   Get(safeQuiz, "answer_index")))))
        correctIndex == IF IsFinite(ToNumber(correctIndexRaw))
                        THEN ToNumber(correctIndexRaw) ELSE Num(-1)
        explanation == Nullish(Get(safeQuiz, "explanation"),
                       Nullish(Get(safeQuiz, "rationale"), Str("")))
    IN [id |-> id, question |-> question, options |-> options,
        correctIndex |-> correctIndex, explanation |-> explanation]

\* QuizCard.jsx: canGrade, for a normalized quiz q (options are 0-indexed in
\* the source, 1-indexed sequences here; indices keep the source's numbering).
canGrade(q) == q.correctIndex.n >= 0 /\ q.correctIndex.n < Len(q.options)


(***************************************************************************)
(* Question records as the upload service may return them                   *)
(* (backend/QUICKSTART.md: each question carries a health_impact field).    *)
(***************************************************************************)
HealthImpact(c, w) == Obj([correct |-> Num(c), wrong |-> Num(w)])

\* spec scenario 1: gradable, no per-question impact
QuizSum ==
    Obj([question |-> Str("2+2?"),
         options |-> Arr(<<Str("3"), Str("4"), Str("5")>>),
         correctIndex |-> Num(1)])

\* no correctIndex under any of its keys: ungradable
QuizUngraded ==
    Obj([question |-> Str("essay"), options |-> Arr(<<Str("a"), Str("b")>>)])

\* an index past the options: ungradable
QuizOutOfRange ==
    Obj([prompt |-> Str("which?"), choices |-> Arr(<<Str("a"), Str("b")>>),
         answerIndex |-> Num(7)])

QuizEasy ==
    Obj([id |-> Num(1), question |-> Str("easy"),
         options |-> Arr(<<Str("a"), Str("b")>>),
         correct_option_index |-> Str("0"),
         health_impact |-> HealthImpact(5, -2)])

QuizMedium ==
    Obj([id |-> Num(2), question |-> Str("medium"),
         options |-> Arr(<<Str("a"), Str("b")>>),
         correctIndex |-> Num(1),
         health_impact |-> HealthImpact(10, -5)])

QuizHard ==
    Obj([id |-> Num(3), question |-> Str("hard"),
         options |-> Arr(<<Num(1), Num(2)>>),
         correctIndex |-> Num(0),
         health_impact |-> HealthImpact(20, -10)])

\* deltas larger than the whole health range
QuizHuge ==
    Obj([question |-> Str("huge"), options |-> Arr(<<Str("a"), Str("b")>>),
         correctIndex |-> Num(0),
         health_impact |-> HealthImpact(150, -250)])

\* a per-question impact of zero
QuizZero ==
    Obj([question |-> Str("zero"), options |-> Arr(<<Str("a"), Str("b")>>),
         correctIndex |-> Num(1),
         health_impact |-> HealthImpact(0, 0)])

\* The values data.questions may take in a successful response.
QuestionSets ==
    { Arr(<<QuizSum, QuizUngraded, QuizOutOfRange>>),
      Arr(<<QuizEasy, QuizMedium, QuizHard>>),
      Arr(<<QuizHuge, QuizZero>>),
      Arr(<<QuizSum>>),
      Arr(<<>>),
      Undefined }

\* What the user may pick in the file input.
Files == {"none", "notes.pdf", "notes.txt"}

\* file.name.endsWith('.pdf')
EndsWithPdf(file) == file = "notes.pdf"

\* How a pending fetch may settle.
Failures == {"notOk", "networkError"}

\* Pending eating timers of the game screen the model follows.
MaxEatTimers == 2

VARIABLES
    currentPage,      \* App: 'home' | 'game'
    questions,        \* App: the list handed to Game
    homeIsEating,     \* Home: isEating
    isGrowing,        \* Home: isGrowing
    homeQuestions,    \* Home: questions
    homeIsLoading,    \* Home: isLoading
    eatTimeoutRef,    \* Home: pending eating timeout, <<>> or <<its closure's uploadedQuestions>>
    growTimeoutRef,   \* Home: pending growth timeout, <<>> or <<its closure's uploadedQuestions>>
    isLoading,        \* UploadBox: isLoading
    fetchPending,     \* UploadBox: number of handleChange calls awaiting their fetch
    currentQuestion,  \* Game
    health,           \* Game
    isEating,         \* Game
    canFeed,          \* Game: false | true | null (the answer event's `correct`)
    eatTimers,        \* Game: number of setTimeout callbacks of handleFeed not yet run
    selectedIndex,    \* QuizCard: null or the chosen index
    isLocked,         \* QuizCard
    lastOp,           \* observer: the handler or callback that ran last
    answersThisVisit, \* observer: onAnswer events since the question was presented
    feedCredit,       \* observer: 1 after a correct answer until a feed uses it up
    delivered,        \* observer: onUpload calls made by the upload box
    starts,           \* observer: onStart calls made by Home
    showHappy,        \* PetDisplay: showHappy
    happyTimer,       \* PetDisplay: the effect's 900 ms timeout is pending
    normIn,           \* normalizer harness: the input record
    normOut           \* normalizer harness: <<>> or <<normalizeQuiz(normIn)>>

appVars == <<currentPage, questions>>
homeVars == <<homeIsEating, isGrowing, homeQuestions, homeIsLoading,
              eatTimeoutRef, growTimeoutRef>>
uploadVars == <<isLoading, fetchPending>>
gameVars == <<currentQuestion, health, isEating, canFeed, eatTimers>>
cardVars == <<selectedIndex, isLocked>>
obsVars == <<answersThisVisit, feedCredit>>
petVars == <<showHappy, happyTimer>>
countVars == <<delivered, starts>>
normVars == <<normIn, normOut>>
vars == <<appVars, homeVars, uploadVars, gameVars, cardVars, petVars, lastOp, obsVars,
          countVars, normVars>>

(***************************************************************************)
(* Game.jsx: Game                                                           *)
(***************************************************************************)
Min(a, b) == IF a < b THEN a ELSE b
Max(a, b) == IF a > b THEN a ELSE b

\* clamp without its upper limit
clampNoCeiling(value, min, max) == Max(min, value)

clamp(value, min, max) == Min(max, Max(min, value))

(***************************************************************************)
(* App.jsx: PetDisplay, rendered by Game with health and isEating.  Its     *)
(* effect runs after the render that follows a handler, so it is part of    *)
(* the handler's step; hp is clamp(Number(health) || 0, 0, 100).            *)
(***************************************************************************)
hp(h) == clamp(h, 0, 100)

\* The effect body for the props of the new render; the cleanup of the
\* previous run (clearTimeout) comes first.
petEffectBody ==
    IF isEating' \/ hp(health') <= 0
    THEN /\ showHappy' = FALSE
         /\ happyTimer' = FALSE
    ELSE /\ showHappy' = TRUE
         /\ happyTimer' = TRUE

\* useEffect(..., [isEating, hp]) after a render of the mounted display.
PetDisplayEffect ==
    IF isEating' # isEating \/ hp(health') # hp(health)
    THEN petEffectBody
    ELSE UNCHANGED petVars

\* The effect's first run, when Game mounts.
PetDisplayMount == petEffectBody

\* setTimeout(() => setShowHappy(false), 900)
happyTimeout ==
    /\ currentPage = "game"
    /\ happyTimer
    /\ showHappy' = FALSE
    /\ happyTimer' = FALSE
    /\ lastOp' = "happyTimeout"
    /\ UNCHANGED <<appVars, homeVars, uploadVars, gameVars, cardVars, obsVars, countVars,
                   normVars>>

\* a sample list instead of [] as the fallback
questionListSampleFallback == IF Truthy(questions) THEN questions.a ELSE <<QuizSum>>

\* const questionList = questions || []
questionList == IF Truthy(questions) THEN questions.a ELSE <<>>

\* questionList[currentQuestion]
quiz ==
    IF currentQuestion < Len(questionList)
    THEN questionList[currentQuestion + 1] ELSE Undefined

\* The quiz card's view of the current question.
card == normalizeQuiz(quiz)

\* Game renders the quiz card and the feed button only with a non-empty list.
GamePlaying == currentPage = "game" /\ Len(questionList) > 0

DefaultCorrect == 8
DefaultWrong == -12
FeedBonus == 6
InitialHealth == 70

\* the answer's correctness ignored: the 'correct' delta in both cases
answerDeltaAlwaysCorrect(correct) ==
    OrElse(Get(Get(quiz, "health_impact"), "correct"), Num(DefaultCorrect))

\* the two branches of the conditional exchanged
answerDeltaSwapped(correct) ==
    IF Truthy(correct)
    THEN OrElse(Get(Get(quiz, "health_impact"), "wrong"), Num(DefaultWrong))
    ELSE OrElse(Get(Get(quiz, "health_impact"), "correct"), Num(DefaultCorrect))

\* const delta = correct ? (quiz?.health_impact?.correct || 8)
\*                       : (quiz?.health_impact?.wrong || -12)
answerDelta(correct) ==
    IF Truthy(correct)
    THEN OrElse(Get(Get(quiz, "health_impact"), "correct"), Num(DefaultCorrect))
    ELSE OrElse(Get(Get(quiz, "health_impact"), "wrong"), Num(DefaultWrong))

handleAnswer(correct) ==
    /\ health' = clamp(health + answerDelta(correct).n, 0, 100)
    /\ canFeed' = correct
    /\ UNCHANGED <<currentQuestion, isEating, eatTimers>>

\* handleNext without the modulo
handleNextNoWrap ==
    /\ currentQuestion' = currentQuestion + 1
    /\ canFeed' = Bool(FALSE)
    /\ UNCHANGED <<health, isEating, eatTimers>>

\* handleNext without its setCanFeed(false)
handleNextKeepsFeed ==
    /\ currentQuestion' =
         (currentQuestion + 1) % (IF Len(questionList) = 0 THEN 1 ELSE Len(questionList))
    /\ UNCHANGED <<health, isEating, eatTimers, canFeed>>

handleNext ==
    /\ currentQuestion' =
         (currentQuestion + 1) % (IF Len(questionList) = 0 THEN 1 ELSE Len(questionList))
    /\ canFeed' = Bool(FALSE)
    /\ UNCHANGED <<health, isEating, eatTimers>>

\* handleFeed without its setCanFeed(false)
handleFeedKeepsPermit ==
    /\ GamePlaying
    /\ Truthy(canFeed)
    /\ eatTimers < MaxEatTimers
    /\ isEating' = TRUE
    /\ health' = clamp(health + FeedBonus, 0, 100)
    /\ eatTimers' = eatTimers + 1
    /\ lastOp' = "feed"
    /\ feedCredit' = feedCredit - 1
    /\ UNCHANGED <<canFeed, currentQuestion, cardVars, answersThisVisit>>
    /\ PetDisplayEffect
    /\ UNCHANGED <<appVars, homeVars, uploadVars, countVars, normVars>>

\* The Feed button is rendered only while canFeed is truthy.
handleFeed ==
    /\ GamePlaying
    /\ Truthy(canFeed)
    /\ eatTimers < MaxEatTimers
    /\ isEating' = TRUE
    /\ health' = clamp(health + FeedBonus, 0, 100)
    /\ canFeed' = Bool(FALSE)
    /\ eatTimers' = eatTimers + 1
    /\ lastOp' = "feed"
    /\ feedCredit' = feedCredit - 1
    /\ UNCHANGED <<currentQuestion, cardVars, answersThisVisit>>
    /\ PetDisplayEffect
    /\ UNCHANGED <<appVars, homeVars, uploadVars, countVars, normVars>>

\* the timer fires but leaves isEating set
feedTimeoutKeepsEating ==
    /\ eatTimers > 0
    /\ isEating' = isEating
    /\ eatTimers' = eatTimers - 1
    /\ lastOp' = "feedTimeout"
    /\ UNCHANGED <<currentQuestion, health, canFeed, cardVars, obsVars>>
    /\ PetDisplayEffect
    /\ UNCHANGED <<appVars, homeVars, uploadVars, countVars, normVars>>

\* setTimeout(() => setIsEating(false), 600): the timers run in the order set.
feedTimeout ==
    /\ eatTimers > 0
    /\ isEating' = FALSE
    /\ eatTimers' = eatTimers - 1
    /\ lastOp' = "feedTimeout"
    /\ UNCHANGED <<currentQuestion, health, canFeed, cardVars, obsVars>>
    /\ PetDisplayEffect
    /\ UNCHANGED <<appVars, homeVars, uploadVars, countVars, normVars>>

(***************************************************************************)
(* QuizCard.jsx: QuizCard.  Game renders one card and never remounts it, so *)
(* selectedIndex and isLocked live across questions until next() resets     *)
(* them.  disabled is a prop (default false); choose tests it itself, so    *)
(* the handler is modelled for both values of the prop.                     *)
(***************************************************************************)
\* The option buttons the card renders: one per normalized option.
OptionIndices == 0..(Len(card.options) - 1)

\* correct: canGrade ? index === correctIndex : null
answerCorrect(index) ==
    IF canGrade(card) THEN Bool(index = card.correctIndex.n) ELSE Null

\* choose without its `if (disabled || isLocked) return`
chooseUnguarded(index, disabled) ==
    /\ GamePlaying
    /\ index \in OptionIndices
    /\ lastOp' = (IF disabled THEN "chooseDisabled"
                  ELSE IF isLocked THEN "chooseLocked" ELSE "choose")
    /\ selectedIndex' = Num(index)
    /\ isLocked' = TRUE
    /\ handleAnswer(answerCorrect(index))
    /\ answersThisVisit' = answersThisVisit + 1
    /\ feedCredit' = (IF answerCorrect(index) = Bool(TRUE) THEN 1 ELSE feedCredit)
    /\ PetDisplayEffect
    /\ UNCHANGED <<appVars, homeVars, uploadVars, countVars, normVars>>

choose(index, disabled) ==
    /\ GamePlaying
    /\ index \in OptionIndices
    /\ lastOp' = (IF disabled THEN "chooseDisabled"
                  ELSE IF isLocked THEN "chooseLocked" ELSE "choose")
    /\ IF disabled \/ isLocked
       THEN UNCHANGED <<gameVars, cardVars, obsVars>>
       ELSE /\ selectedIndex' = Num(index)
            /\ isLocked' = TRUE
            /\ handleAnswer(answerCorrect(index))
            /\ answersThisVisit' = answersThisVisit + 1
            /\ feedCredit' =
                 (IF answerCorrect(index) = Bool(TRUE) THEN 1 ELSE feedCredit)
    /\ PetDisplayEffect
    /\ UNCHANGED <<appVars, homeVars, uploadVars, countVars, normVars>>

\* next without its setSelectedIndex(null)
nextKeepsSelection ==
    /\ GamePlaying
    /\ isLocked
    /\ isLocked' = FALSE
    /\ handleNext
    /\ lastOp' = "next"
    /\ answersThisVisit' = 0
    /\ UNCHANGED <<selectedIndex, feedCredit>>
    /\ PetDisplayEffect
    /\ UNCHANGED <<appVars, homeVars, uploadVars, countVars, normVars>>

\* The Next button is rendered only while isLocked.
next ==
    /\ GamePlaying
    /\ isLocked
    /\ selectedIndex' = Null
    /\ isLocked' = FALSE
    /\ handleNext
    /\ lastOp' = "next"
    /\ answersThisVisit' = 0
    /\ UNCHANGED feedCredit
    /\ PetDisplayEffect
    /\ UNCHANGED <<appVars, homeVars, uploadVars, countVars, normVars>>

(***************************************************************************)
(* App.jsx: App                                                             *)
(***************************************************************************)
\* handleStart; Home unmounts (its effect cleanup clears both timeouts and   *)
\* its state is dropped) and Game mounts with its initial state.
handleStart(uploadedQuestions) ==
    /\ questions' = uploadedQuestions
    /\ currentPage' = "game"
    /\ eatTimeoutRef' = <<>>
    /\ growTimeoutRef' = <<>>
    /\ homeIsEating' = FALSE
    /\ isGrowing' = FALSE
    /\ homeQuestions' = Null
    /\ homeIsLoading' = FALSE
    /\ isLoading' = FALSE
    /\ fetchPending' = 0

(***************************************************************************)
(* Game.jsx: Home (with onStart, questions and isLoading)                   *)
(***************************************************************************)
handleUpload(uploadedQuestions) ==
    /\ homeQuestions' = uploadedQuestions
    /\ homeIsLoading' = FALSE
    /\ homeIsEating' = TRUE
    \* clearTimeout(eatTimeoutRef.current), then the new eating timeout
    /\ eatTimeoutRef' = <<uploadedQuestions>>
    /\ UNCHANGED <<isGrowing, growTimeoutRef>>

\* the eating timeout's callback
eatTimeout ==
    /\ currentPage = "home"
    /\ eatTimeoutRef # <<>>
    /\ homeIsEating' = FALSE
    /\ isGrowing' = TRUE
    /\ growTimeoutRef' = <<eatTimeoutRef[1]>>
    /\ eatTimeoutRef' = <<>>
    /\ lastOp' = "eatTimeout"
    /\ UNCHANGED <<homeQuestions, homeIsLoading>>
    /\ UNCHANGED <<appVars, uploadVars, gameVars, cardVars, petVars, obsVars, countVars,
                   normVars>>

\* the growth timeout's callback calling onStart?.() without the list
growTimeoutNoArgument ==
    /\ currentPage = "home"
    /\ growTimeoutRef # <<>>
    /\ handleStart(Undefined)
    /\ lastOp' = "growTimeout"
    /\ starts' = starts + 1
    /\ UNCHANGED <<gameVars, cardVars, obsVars, delivered, normVars>>
    /\ PetDisplayMount

\* the growth timeout's callback: onStart?.(uploadedQuestions)
growTimeout ==
    /\ currentPage = "home"
    /\ growTimeoutRef # <<>>
    /\ handleStart(growTimeoutRef[1])
    /\ lastOp' = "growTimeout"
    /\ starts' = starts + 1
    /\ UNCHANGED <<gameVars, cardVars, obsVars, delivered, normVars>>
    /\ PetDisplayMount

(***************************************************************************)
(* UploadBox (with onUpload and onLoading)                                  *)
(***************************************************************************)
\* Home renders the upload box while not growing; its input is disabled
\* while isLoading.
UploadInputEnabled == currentPage = "home" /\ ~isGrowing /\ ~isLoading

\* handleChange entering the loading state before it tests the file name
handleChangeLoadsFirst(file) ==
    /\ UploadInputEnabled
    /\ IF file = "none"
       THEN /\ lastOp' = "changeNoFile"
            /\ UNCHANGED <<homeVars, uploadVars>>
       ELSE IF ~EndsWithPdf(file)
       THEN /\ isLoading' = TRUE
            /\ homeIsLoading' = TRUE
            /\ lastOp' = "alertNotPdf"
            /\ UNCHANGED <<fetchPending, homeIsEating, isGrowing, homeQuestions,
                           eatTimeoutRef, growTimeoutRef>>
       ELSE /\ isLoading' = TRUE
            /\ homeIsLoading' = TRUE
            /\ fetchPending' = fetchPending + 1
            /\ lastOp' = "uploadStart"
            /\ UNCHANGED <<homeIsEating, isGrowing, homeQuestions,
                           eatTimeoutRef, growTimeoutRef>>
    /\ UNCHANGED <<appVars, gameVars, cardVars, petVars, obsVars, countVars, normVars>>

\* handleChange without its setIsLoading(true): the input stays enabled
handleChangeKeepsEnabled(file) ==
    /\ UploadInputEnabled
    /\ IF file = "none"
       THEN /\ lastOp' = "changeNoFile"
            /\ UNCHANGED <<homeVars, uploadVars>>
       ELSE IF ~EndsWithPdf(file)
       THEN /\ lastOp' = "alertNotPdf"
            /\ UNCHANGED <<homeVars, uploadVars>>
       ELSE /\ isLoading' = isLoading
            /\ homeIsLoading' = TRUE
            /\ fetchPending' = fetchPending + 1
            /\ lastOp' = "uploadStart"
            /\ UNCHANGED <<homeIsEating, isGrowing, homeQuestions,
                           eatTimeoutRef, growTimeoutRef>>
    /\ UNCHANGED <<appVars, gameVars, cardVars, petVars, obsVars, countVars, normVars>>

\* handleChange up to its await
handleChange(file) ==
    /\ UploadInputEnabled
    /\ IF file = "none"
       THEN /\ lastOp' = "changeNoFile"
            /\ UNCHANGED <<homeVars, uploadVars>>
       ELSE IF ~EndsWithPdf(file)
       THEN /\ lastOp' = "alertNotPdf"
            /\ UNCHANGED <<homeVars, uploadVars>>
       ELSE /\ isLoading' = TRUE
            /\ homeIsLoading' = TRUE
            /\ fetchPending' = fetchPending + 1
            /\ lastOp' = "uploadStart"
            /\ UNCHANGED <<homeIsEating, isGrowing, homeQuestions,
                           eatTimeoutRef, growTimeoutRef>>
    /\ UNCHANGED <<appVars, gameVars, cardVars, petVars, obsVars, countVars, normVars>>

\* handleChange after its await: response.ok and data.questions
uploadSucceeds(data) ==
    /\ fetchPending > 0
    /\ fetchPending' = fetchPending - 1
    /\ handleUpload(data)
    /\ delivered' = delivered + 1
    /\ lastOp' = "uploadDone"
    /\ UNCHANGED <<isLoading, starts>>
    /\ UNCHANGED <<appVars, gameVars, cardVars, petVars, obsVars, normVars>>

\* the catch block without its setIsLoading(false)
uploadFailsStaysLoading(failure) ==
    /\ fetchPending > 0
    /\ fetchPending' = fetchPending - 1
    /\ homeIsLoading' = FALSE
    /\ lastOp' = "alertUploadError"
    /\ UNCHANGED <<isLoading, homeIsEating, isGrowing, homeQuestions,
                   eatTimeoutRef, growTimeoutRef>>
    /\ UNCHANGED <<appVars, gameVars, cardVars, petVars, obsVars, countVars, normVars>>

\* handleChange after its await: the catch block
uploadFails(failure) ==
    /\ fetchPending > 0
    /\ fetchPending' = fetchPending - 1
    /\ homeIsLoading' = FALSE
    /\ isLoading' = FALSE
    /\ lastOp' = "alertUploadError"
    /\ UNCHANGED <<homeIsEating, isGrowing, homeQuestions, eatTimeoutRef, growTimeoutRef>>
    /\ UNCHANGED <<appVars, gameVars, cardVars, petVars, obsVars, countVars, normVars>>

(***************************************************************************)
(* The application                                                          *)
(***************************************************************************)
AppInit ==
    /\ currentPage = "home"
    /\ questions = Null
    /\ homeIsEating = FALSE
    /\ isGrowing = FALSE
    /\ homeQuestions = Null
    /\ homeIsLoading = FALSE
    /\ eatTimeoutRef = <<>>
    /\ growTimeoutRef = <<>>
    /\ isLoading = FALSE
    /\ fetchPending = 0
    /\ currentQuestion = 0
    /\ health = InitialHealth
    /\ isEating = FALSE
    /\ canFeed = Bool(FALSE)
    /\ eatTimers = 0
    /\ selectedIndex = Null
    /\ isLocked = FALSE
    /\ lastOp = "mount"
    /\ answersThisVisit = 0
    /\ feedCredit = 0
    /\ delivered = 0
    /\ starts = 0
    /\ showHappy = FALSE
    /\ happyTimer = FALSE

Init ==
    /\ AppInit
    /\ normIn = Undefined
    /\ normOut = <<>>

Next ==
    \/ \E file \in Files : handleChange(file)
    \/ \E data \in QuestionSets : uploadSucceeds(data)
    \/ \E failure \in Failures : uploadFails(failure)
    \/ eatTimeout
    \/ growTimeout
    \/ \E index \in OptionIndices, disabled \in BOOLEAN : choose(index, disabled)
    \/ next
    \/ handleFeed
    \/ feedTimeout
    \/ happyTimeout

Spec == Init /\ [][Next]_vars

\* The browser runs every pending setTimeout callback: a timer that stays
\* pending fires.
FairSpec ==
    /\ Spec
    /\ WF_vars(feedTimeout)
    /\ WF_vars(eatTimeout)
    /\ WF_vars(growTimeout)
    /\ WF_vars(happyTimeout)

(***************************************************************************)
(* The normalizer on its own: the input is any record over at most          *)
(* MaxKeys of the keys normalizeQuiz reads, or no record at all.            *)
(***************************************************************************)
QuizKeys ==
    {"id", "quizId", "questionId", "question", "prompt",
     "options", "choices", "answers", "responses",
     "correctIndex", "correct_option_index", "correctChoiceIndex",
     "answerIndex", "answer_index", "explanation", "rationale"}

MaxKeys == 2

FieldValues ==
    {Null, Str(""), Str("1"), Str("abc"), Num(1), Num(7),
     Arr(<<Str("a"), Num(4)>>)}

NonRecords == {Undefined, Null, Str("abc"), Num(7), Arr(<<Num(1)>>)}

KeySets == {keys \in SUBSET QuizKeys : Cardinality(keys) <= MaxKeys}

NormInit ==
    /\ AppInit
    /\ \/ \E keys \in KeySets : \E o \in [keys -> FieldValues] : normIn = Obj(o)
       \/ normIn \in NonRecords
    /\ normOut = <<>>

\* const {...} = useMemo(() => normalizeQuiz(quiz), [quiz])
normalize ==
    /\ normOut = <<>>
    /\ normOut' = <<normalizeQuiz(normIn)>>
    /\ UNCHANGED normIn
    /\ UNCHANGED <<appVars, homeVars, uploadVars, gameVars, cardVars, petVars, lastOp,
                   obsVars, countVars>>

NormNext == normalize

SpecNorm == NormInit /\ [][NormNext]_vars

(***************************************************************************)
(* Properties of the game session                                           *)
(***************************************************************************)
\* The question under health_impact-free defaults.
NoHealthImpact == Get(quiz, "health_impact") = Undefined

\* C1: in every reachable state health is an integer in [0, 100]; it is 70
\* until the game is entered, whatever the per-question deltas are.
C1_HealthInRange ==
    /\ health \in 0..100
    /\ (currentPage = "home" => health = 70)

\* C1 witness: a wrong answer to the question whose deltas exceed the range
\* (-250) has been applied and health sits at the floor.
C1_Witness ==
    /\ lastOp = "choose"
    /\ quiz = QuizHuge
    /\ selectedIndex = Num(1)
    /\ health = 0

\* C2: on a gradable question without health_impact an accepted choose adds 8
\* (capped at 100) and grants the feed when the index is the correct one,
\* and takes 12 (floored at 0) and refuses the feed otherwise.
C2_DefaultImpacts ==
    [][ (lastOp' = "choose" /\ canGrade(card) /\ NoHealthImpact) =>
          IF selectedIndex' = card.correctIndex
          THEN /\ health' = (IF health + 8 > 100 THEN 100 ELSE health + 8)
               /\ canFeed' = Bool(TRUE)
          ELSE /\ health' = (IF health - 12 < 0 THEN 0 ELSE health - 12)
               /\ canFeed' = Bool(FALSE) ]_vars

\* C2 witness: a correct answer with the default impact has been capped at 100.
C2_Witness ==
    /\ lastOp = "choose"
    /\ quiz = QuizSum
    /\ selectedIndex = Num(1)
    /\ canFeed = Bool(TRUE)
    /\ health = 100

\* C3: choosing on an ungradable question leaves health as it was and leaves
\* the feed refused.
C3_UngradableLeavesHealth ==
    [][ (lastOp' = "choose" /\ ~canGrade(card)) =>
          /\ health' = health
          /\ ~Truthy(canFeed') ]_vars

\* C4: a choose made while the card is locked or disabled changes nothing and
\* delivers no answer event, so a question is answered at most once a visit.
C4_LockedChooseIsNoOp ==
    /\ [](answersThisVisit <= 1)
    /\ [][ lastOp' \in {"chooseLocked", "chooseDisabled"} =>
             UNCHANGED <<selectedIndex, isLocked, health, canFeed, answersThisVisit>> ]_vars

\* C4 witness: a second choose, of another option, was made on the locked
\* card and the first selection stands.
C4_Witness ==
    /\ lastOp = "chooseLocked"
    /\ isLocked
    /\ answersThisVisit = 1
    /\ quiz = QuizSum
    /\ selectedIndex = Num(1)
    /\ health = 78

\* C5: advancing from the last question of a list does not put currentQuestion
\* back at 0; advancing from any other question adds exactly one.
C5_LastAdvanceDoesNotWrap ==
    [][ lastOp' = "next" =>
          IF currentQuestion = Len(questionList) - 1
          THEN Len(questionList) > 1 => currentQuestion' # 0
          ELSE currentQuestion' = currentQuestion + 1 ]_vars

\* C6: wherever the game page is, one step of the application can bring the
\* home page back with the session dropped.
C6_GoBackAvailable ==
    currentPage = "game" => ENABLED (Next /\ currentPage' = "home")

\* C7: a feed happens only with the permission granted, adds 6 (capped at
\* 100), starts the eating animation and uses the permission up; every feed
\* spends the credit of one correct answer, which is never overdrawn.
C7_FeedOncePerCorrectAnswer ==
    /\ [](feedCredit \in {0, 1})
    /\ [][ lastOp' = "feed" =>
             /\ canFeed = Bool(TRUE)
             /\ health' = (IF health + 6 > 100 THEN 100 ELSE health + 6)
             /\ isEating'
             /\ canFeed' = Bool(FALSE)
             /\ feedCredit = 1 ]_vars

\* C7 witness: the first question was answered correctly (70 -> 78) and the
\* pet was fed once (78 -> 84); the permission is spent.
C7_Witness ==
    /\ lastOp = "feed"
    /\ isEating
    /\ canFeed = Bool(FALSE)
    /\ feedCredit = 0
    /\ quiz = QuizSum
    /\ health = 84

\* C8: canFeed is true only on a locked, gradable question whose selected
\* option is the correct one.
C8_CanFeedOnlyAfterCorrect ==
    canFeed = Bool(TRUE) =>
        /\ GamePlaying
        /\ isLocked
        /\ canGrade(card)
        /\ selectedIndex = card.correctIndex

\* C8 witness: the feed is on offer after a correct answer given under a
\* string-typed index key (correct_option_index: "0").
C8_Witness ==
    /\ canFeed = Bool(TRUE)
    /\ quiz = QuizEasy
    /\ selectedIndex = Num(0)

\* C9: while the timer of the latest feed is still pending the pet is eating:
\* no earlier feed's timer clears isEating during a later feed's animation.
C9_NoStaleEatingTimer ==
    eatTimers > 0 => isEating

(***************************************************************************)
(* Properties of the normalizer                                             *)
(***************************************************************************)
IndexKeys ==
    {"correctIndex", "correct_option_index", "correctChoiceIndex",
     "answerIndex", "answer_index"}

\* The record gives no index: none of the index keys is present.
NoIndexGiven == \A k \in IndexKeys : Get(normIn, k) = Undefined

\* The text the record gives for the question: question first, then prompt.
GivenText == Nullish(Get(normIn, "question"), Get(normIn, "prompt"))

\* C10 (as claimed): the output has a non-empty prompt, options that are all
\* strings, and a correctIndex that is -1 or an index into the options.
C10_NormalizedShape ==
    normOut # <<>> =>
        LET q == normOut[1]
        IN /\ q.question \notin {Undefined, Null, Str("")}
           /\ \A i \in 1..Len(q.options) : q.options[i].t = "string"
           /\ \/ q.correctIndex = Num(-1)
              \/ /\ q.correctIndex.t = "number"
                 /\ q.correctIndex.n >= 0
                 /\ q.correctIndex.n < Len(q.options)

\* C10 (amended): the prompt is never missing and is empty only when the
\* record's own text is the empty string; the options are all strings; the
\* correctIndex is a finite number, -1 when the record has no index key, and
\* is kept as given even when it is no index into the options.
C10_NormalizedShapeAmended ==
    normOut # <<>> =>
        LET q == normOut[1]
        IN /\ q.question \notin {Undefined, Null}
           /\ (q.question = Str("") => GivenText = Str(""))
           /\ (GivenText \in {Undefined, Null} => q.question = Str("..."))
           /\ \A i \in 1..Len(q.options) : q.options[i].t = "string"
           /\ q.correctIndex.t = "number"
           /\ (NoIndexGiven => q.correctIndex = Num(-1))

\* C10 witness: options of mixed types were turned into strings and an index
\* past them was kept as given.
C10_Witness ==
    /\ normOut # <<>>
    /\ normOut[1].options = <<Str("a"), Str("4")>>
    /\ normOut[1].correctIndex = Num(7)

\* The fully defaulted question.
DefaultQuestion ==
    [id |-> Str("quiz"), question |-> Str("..."), options |-> <<>>,
     correctIndex |-> Num(-1), explanation |-> Str("")]

\* C11: an input that is missing, null or no object (and likewise a record
\* without any key) is normalized to the fully defaulted question, which is
\* ungradable.
C11_DefaultsForNoRecord ==
    (normOut # <<>> /\ (normIn.t # "object" \/ DOMAIN normIn.o = {})) =>
        /\ normOut[1] = DefaultQuestion
        /\ ~canGrade(normOut[1])

\* C11 witness: null has been normalized.
C11_Witness ==
    /\ normIn = Null
    /\ normOut = <<DefaultQuestion>>

(***************************************************************************)
(* Properties of the upload                                                 *)
(***************************************************************************)
\* C12: when the request has failed the error notice is up, the file input
\* can be used again, nothing was handed to Home or to App, no animation was
\* started and the application is on the home page without questions.
C12_FailureLeavesHome ==
    lastOp = "alertUploadError" =>
        /\ currentPage = "home"
        /\ questions = Null
        /\ homeQuestions = Null
        /\ ~isLoading
        /\ ~homeIsLoading
        /\ fetchPending = 0
        /\ UploadInputEnabled
        /\ ~homeIsEating
        /\ ~isGrowing
        /\ eatTimeoutRef = <<>>
        /\ growTimeoutRef = <<>>

\* C12 witness: a request has failed.
C12_Witness ==
    /\ lastOp = "alertUploadError"
    /\ currentPage = "home"
    /\ ~isLoading

(***************************************************************************)
(* Properties of the health impacts                                         *)
(***************************************************************************)
\* The impacts of backend/QUICKSTART.md, or none (the defaults).
DocumentedImpact ==
    \/ NoHealthImpact
    \/ Get(quiz, "health_impact") \in
         {HealthImpact(5, -2), HealthImpact(10, -5), HealthImpact(20, -10)}

\* C13: with the default or a documented impact, a correct answer to a
\* gradable question never lowers health and raises it when below 100; a
\* wrong answer never raises it and lowers it when above 0.
C13_HealthFollowsCorrectness ==
    [][ (lastOp' = "choose" /\ canGrade(card) /\ DocumentedImpact) =>
          IF selectedIndex' = card.correctIndex
          THEN health' >= health /\ (health < 100 => health' > health)
          ELSE health' <= health /\ (health > 0 => health' < health) ]_vars

\* C13 witness: the hard question was answered correctly from 70 (+20).
C13_Witness ==
    /\ lastOp = "choose"
    /\ quiz = QuizHard
    /\ selectedIndex = Num(0)
    /\ canFeed = Bool(TRUE)
    /\ health = 90

\* The question's own deltas.
ImpactCorrect == Get(Get(quiz, "health_impact"), "correct").n
ImpactWrong == Get(Get(quiz, "health_impact"), "wrong").n

\* C14: on a gradable question carrying health_impact {correct: c, wrong: w}
\* an accepted choose changes health by exactly c (correct) or w (wrong),
\* cut to [0, 100], for every c and w, 0 included.
C14_OwnImpactApplied ==
    [][ (lastOp' = "choose" /\ canGrade(card) /\ ~NoHealthImpact) =>
          LET d == IF selectedIndex' = card.correctIndex
                   THEN ImpactCorrect ELSE ImpactWrong
          IN health' = (IF health + d > 100 THEN 100
                        ELSE IF health + d < 0 THEN 0 ELSE health + d) ]_vars

(***************************************************************************)
(* Properties of advancing                                                  *)
(***************************************************************************)
\* C15: next happens only on a locked card; it clears the selection, the
\* lock and the feed permission and leaves health alone, so a card that is
\* not locked never shows a selection.
C15_AdvanceClearsAnswer ==
    /\ [](isLocked <=> selectedIndex # Null)
    /\ [][ lastOp' = "next" =>
             /\ isLocked
             /\ selectedIndex' = Null
             /\ ~isLocked'
             /\ canFeed' = Bool(FALSE)
             /\ health' = health ]_vars

\* C15 witness: the second question is presented unanswered after a correct
\* answer to the first (70 -> 78).
C15_Witness ==
    /\ lastOp = "next"
    /\ currentQuestion = 1
    /\ ~isLocked
    /\ selectedIndex = Null
    /\ canFeed = Bool(FALSE)
    /\ health = 78

\* C16: with a non-empty list currentQuestion indexes it; the list handed to
\* the game never changes; continuing after the last question presents the
\* first question of the same list, unanswered.
C16_IndexWithinList ==
    /\ [](GamePlaying =>
            (currentQuestion >= 0 /\ currentQuestion < Len(questionList)))
    /\ [][currentPage = "game" => questions' = questions]_vars
    /\ [][ (lastOp' = "next" /\ currentQuestion = Len(questionList) - 1) =>
             /\ currentQuestion' = 0
             /\ ~isLocked'
             /\ selectedIndex' = Null ]_vars

\* C16 witness: the three-question list has been played through and the
\* first question is up again.
C16_Witness ==
    /\ lastOp = "next"
    /\ Len(questionList) = 3
    /\ currentQuestion = 0
    /\ ~isLocked

\* C17: while the game has no list or an empty one nothing can be chosen,
\* advanced or fed: the session keeps its initial values.
C17_LoadingAcceptsNothing ==
    (currentPage = "game" /\ questions \in {Undefined, Null, Arr(<<>>)}) =>
        /\ ~GamePlaying
        /\ currentQuestion = 0
        /\ health = 70
        /\ canFeed = Bool(FALSE)
        /\ ~isEating
        /\ ~isLocked
        /\ selectedIndex = Null

\* C17 witness: the game was entered without a list (data.questions missing).
C17_Witness ==
    /\ currentPage = "game"
    /\ questions = Undefined
    /\ health = 70

(***************************************************************************)
(* Properties of the normalizer's key priority                              *)
(***************************************************************************)
IdOrder == <<"id", "quizId", "questionId">>
OptionsOrder == <<"options", "choices", "answers", "responses">>
IndexOrder ==
    <<"correctIndex", "correct_option_index", "correctChoiceIndex",
      "answerIndex", "answer_index">>
ExplanationOrder == <<"explanation", "rationale">>

\* The value of the first key of `order` that the record holds with a value
\* other than null; Undefined when there is none.
FirstPresent(order) ==
    LET present == {i \in 1..Len(order) :
                      Get(normIn, order[i]) \notin {Undefined, Null}}
    IN IF present = {} THEN Undefined
       ELSE Get(normIn, order[CHOOSE i \in present : \A j \in present : i <= j])

\* C18: each field comes from the first present key of its priority order;
\* a later key is read only when all earlier ones are absent or null.
C18_FirstPresentKeyWins ==
    (normOut # <<>> /\ normIn.t = "object") =>
        LET q == normOut[1]
            opts == FirstPresent(OptionsOrder)
            idx == FirstPresent(IndexOrder)
        IN /\ FirstPresent(IdOrder) # Undefined => q.id = FirstPresent(IdOrder)
           /\ FirstPresent(ExplanationOrder) # Undefined =>
                  q.explanation = FirstPresent(ExplanationOrder)
           /\ opts # Undefined =>
                  q.options = (IF opts.t = "array"
                               THEN [i \in 1..Len(opts.a) |-> Str(JsString(opts.a[i]))]
                               ELSE <<>>)
           /\ idx # Undefined =>
                  q.correctIndex = (IF ToNumber(idx) = NaN THEN Num(-1) ELSE ToNumber(idx))

\* C18 witness: options is present but no array and choices holds a list:
\* the list under the later key is not used.
C18_Witness ==
    /\ normOut # <<>>
    /\ Get(normIn, "options") = Str("abc")
    /\ Get(normIn, "choices") = Arr(<<Str("a"), Num(4)>>)
    /\ normOut[1].options = <<>>

(***************************************************************************)
(* C20: showHappy is entered only when feeding ends, i.e. in a step that    *)
(* takes isEating from true to false; not on mount and not when an answer   *)
(* changes health.                                                          *)
(***************************************************************************)
C20_HappyOnlyAfterFeeding ==
    [][(showHappy' /\ ~showHappy) => (isEating /\ ~isEating')]_vars

(***************************************************************************)
(* C19: the animation flags are transient.  With timers firing fairly, a    *)
(* set isEating (Game, after feed) and a set home isEating (after an        *)
(* upload) become false again; isGrowing becomes true only in the step that *)
(* clears the home isEating, is never true together with it, and the page   *)
(* switches to the game only from a growing home.                           *)
(***************************************************************************)
C19_FlagsAreTransient ==
    /\ isEating ~> ~isEating
    /\ homeIsEating ~> ~homeIsEating
    /\ [](isGrowing => ~homeIsEating)
    /\ [][(isGrowing' /\ ~isGrowing) => (homeIsEating /\ ~homeIsEating')]_vars
    /\ [][(currentPage = "home" /\ currentPage' = "game") => (isGrowing /\ ~homeIsEating)]_vars

\* In the game (so eating, growing and the switch have happened in order), a
\* feed timer has just cleared isEating.
C19_Witness ==
    /\ currentPage = "game"
    /\ lastOp = "feedTimeout"
    /\ ~isEating
    /\ eatTimers = 0

(***************************************************************************)
(* C21: the game page is entered only after a successful upload, and on the *)
(* game page the application holds exactly the list that upload returned;   *)
(* with timers firing fairly every successful upload is followed by the     *)
(* game page; Home calls onStart at most once.                              *)
(***************************************************************************)
C21_GameOnlyAfterUpload ==
    /\ [][(currentPage = "home" /\ currentPage' = "game") =>
             (delivered = 1 /\ questions' = homeQuestions)]_vars
    /\ [][currentPage = "game" =>
             (currentPage' = "game" /\ questions' = questions)]_vars
    /\ (lastOp = "uploadDone") ~> (currentPage = "game")
    /\ [](starts <= 1)
    /\ [](currentPage = "game" <=> starts = 1)

\* The game page holds a non-empty uploaded list after the one onStart call.
C21_Witness ==
    /\ currentPage = "game"
    /\ starts = 1
    /\ delivered = 1
    /\ Truthy(questions)
    /\ questions = Arr(<<QuizEasy, QuizMedium, QuizHard>>)

(***************************************************************************)
(* C22: at most one upload request is in flight.  While a request is in     *)
(* flight the upload input is disabled; isLoading goes back to false only   *)
(* when a request fails (or the component is dropped with Home); the upload *)
(* box calls onUpload at most once.                                         *)
(***************************************************************************)
C22_OneRequestInFlight ==
    /\ [](fetchPending <= 1)
    /\ [](fetchPending > 0 => (isLoading /\ ~UploadInputEnabled))
    /\ [](delivered <= 1)
    /\ [][(isLoading /\ ~isLoading') =>
             (lastOp' = "alertUploadError" \/ currentPage' = "game")]_vars

\* After the one delivery the box is still on the home page and still disabled.
C22_Witness ==
    /\ currentPage = "home"
    /\ lastOp = "uploadDone"
    /\ delivered = 1
    /\ fetchPending = 0
    /\ isLoading
    /\ ~UploadInputEnabled

(***************************************************************************)
(* C23: selecting a file whose name does not end in ".pdf" raises the       *)
(* notice and changes nothing else: no loading state in UploadBox or Home   *)
(* (onLoading not called), no request, no delivery (onUpload not called),   *)
(* and the input stays enabled.                                             *)
(***************************************************************************)
C23_NotPdfChangesNothing ==
    /\ [][lastOp' = "alertNotPdf" =>
             UNCHANGED <<appVars, homeVars, uploadVars, gameVars, cardVars, petVars,
                         obsVars, countVars>>]_vars
    /\ [](lastOp = "alertNotPdf" =>
             (~isLoading /\ ~homeIsLoading /\ fetchPending = 0 /\ UploadInputEnabled))

\* The notice has been raised on the home page and no request is in flight.
C23_Witness ==
    /\ lastOp = "alertNotPdf"
    /\ currentPage = "home"
    /\ ~isLoading
    /\ fetchPending = 0
    /\ delivered = 0

====
